---- MODULE Spec2Model ----
(***************************************************************************)
(* The weighted wheel (Spinner.tsx, second WeightedWheel of part_000):     *)
(* the weighted pick, the rotation plan of a spin, the frame callbacks of  *)
(* the spin, pop and reflow animations, and the effects that run when a    *)
(* prop changes.                                                           *)
(*                                                                         *)
(* Numbers.  Angles are integers, TwoPi units to the full turn.  Time is   *)
(* in milliseconds; the code reads the clock only as now - startTime, so   *)
(* each frame request carries that difference (elapsed) and the clock's    *)
(* advance adds to it.  A Math.random() draw is k/den for k in 0..den-1.   *)
(* Progress t of an animation is kept exact for the test t < 1 and is      *)
(* rounded down to a multiple of 1/ProgressSteps before the easing.        *)
(* Indices are 0-based as in the source: item i of the code is items[i+1]. *)
(***************************************************************************)
EXTENDS Integers, Sequences, FiniteSets, TLC

VARIABLES
  items,                    \* prop: the item list
  isDisabled,               \* prop
  removeSelectedRequested,  \* prop
  mounted,                  \* the component is mounted
  spinning,                 \* useState(false)
  selectedIndexRef,         \* useRef<number | null>(null)
  rotationRef,              \* useRef<number>(0)
  prevItemsRef,             \* useRef(items)
  activeRangesRef,          \* useRef(buildEqualRanges(items))
  removingRef,              \* useRef(false)
  lastRemoveReqRef,         \* useRef<boolean | undefined>(undefined)
  rafRef,                   \* handle of the last spin or pop frame request
  reflowRafRef,             \* handle of the last reflow frame request
  pending,                  \* the frame callbacks requested and not yet run or cancelled
  lastDraw,                 \* arguments of the last drawWheel call
  resultLog,                \* the values passed to onResult, in order
  removeLog,                \* the values passed to onRemove, in order
  popCount,                 \* the pop animations started so far
  propChanges,              \* the changes of items and size so far
  refused                   \* the trigger the last step refused: "spin", "remove" or ""

vars == <<items, isDisabled, removeSelectedRequested, mounted, spinning,
          selectedIndexRef, rotationRef, prevItemsRef, activeRangesRef,
          removingRef, lastRemoveReqRef, rafRef, reflowRafRef, pending,
          lastDraw, resultLog, removeLog, popCount, propChanges, refused>>

----------------------------------------------------------------------------
(* Bounds of the model *)

FrameMs == 4000         \* the clock advances by this much between frames
MaxSpins == 2           \* accepted spins per behaviour
MaxPropChanges == 1
PickDen == 2            \* weightedPick's Math.random() is k/PickDen
LandDen == 1            \* the landing draw is k/LandDen
ExtraDen == 1           \* the extra-rotations draw is k/ExtraDen
JitterDen == 1          \* the duration jitter draw is k/JitterDen
ProgressSteps == 4      \* progress is rounded down to a multiple of 1/ProgressSteps

----------------------------------------------------------------------------
(* Program constants *)

TwoPi == 1200                 \* const twoPi = Math.PI * 2, in angle units
NoIndex == -1                 \* null of selectedIndexRef; popIndex ?? -1
NoHandle == 0                 \* null of rafRef and reflowRafRef
minFullRotations == 2
extraChoices == 4             \* Math.floor(Math.random() * 4)
msPerRotation == 1300
baseMs == 900
jitterMs == 400
reflowDurationMs == 420
popDurationMs == 520
marginPercent == 15           \* sliceAngle * 0.15

pointerAngle == -(TwoPi \div 4)   \* -Math.PI / 2

Item(v, w) == [value |-> v, weight |-> w]

----------------------------------------------------------------------------
(* Pure functions *)

Max(a, b) == IF a >= b THEN a ELSE b
Min(a, b) == IF a <= b THEN a ELSE b

\* JavaScript's %: the remainder has the sign of the dividend.
JsMod(a, b) == IF a >= 0 THEN a % b ELSE -((-a) % b)

RECURSIVE SumWeights(_)
SumWeights(list) ==
  IF list = <<>> THEN 0 ELSE list[1].weight + SumWeights(Tail(list))

\* assertValid without the checks of the weights
assertValidNonEmpty(list) == Len(list) > 0

\* assertValid: TRUE when it does not throw.  Values are strings and weights
\* finite numbers by construction of the model's lists.
assertValid(list) ==
  /\ Len(list) > 0
  /\ \A i \in 1..Len(list) : list[i].weight >= 0
  /\ SumWeights(list) > 0

\* weightedPick's loop with positions counted from the second item: a hit
\* returns the item after the one that took the remainder to zero
RECURSIVE PickWalkFromOne(_, _, _, _)
PickWalkFromOne(list, i, r, den) ==
  IF i > Len(list) THEN Len(list)
  ELSE LET r2 == r - list[i].weight * den
       IN  IF r2 <= 0 THEN i + 1 ELSE PickWalkFromOne(list, i + 1, r2, den)

\* weightedPick's loop testing r - it.weight <= 0 without r -= it.weight
RECURSIVE PickWalkNoSubtract(_, _, _, _)
PickWalkNoSubtract(list, i, r, den) ==
  IF i > Len(list) THEN Len(list)
  ELSE IF r - list[i].weight * den <= 0 THEN i
       ELSE PickWalkNoSubtract(list, i + 1, r, den)

\* The loop of weightedPick from position i (1-based) with remainder r, both
\* scaled by den: r -= it.weight; if (r <= 0) return it.  Returns the
\* position of the returned item.
RECURSIVE PickWalk(_, _, _, _)
PickWalk(list, i, r, den) ==
  IF i > Len(list) THEN Len(list)              \* return items[items.length - 1]
  ELSE LET r2 == r - list[i].weight * den
       IN  IF r2 <= 0 THEN i ELSE PickWalk(list, i + 1, r2, den)

\* weightedPick with Math.random() = k/den: r = (k/den) * total.  The result
\* is the 0-based position of the returned item, NoIndex - 1 when the list is
\* empty (items[-1] is undefined).
weightedPick(list, k, den) ==
  IF list = <<>> THEN NoIndex - 1
  ELSE PickWalk(list, 1, k * SumWeights(list), den) - 1

\* items.findIndex((it) => it.value === v)
findIndex(list, v) ==
  IF \E i \in 1..Len(list) : list[i].value = v
  THEN (CHOOSE i \in 1..Len(list) :
          /\ list[i].value = v
          /\ \A j \in 1..(i - 1) : list[j].value # v) - 1
  ELSE NoIndex

\* sliceAngle = (Math.PI * 2) / Math.max(1, sliceCount)
sliceAngleOf(list) == TwoPi \div Max(1, Len(list))

marginOf(sliceAngle) == (sliceAngle * marginPercent) \div 100

\* the landing angle without the margin: index * sliceAngle + Math.random() * sliceAngle
landingAngleNoMargin(index, sliceAngle, k, den) ==
  index * sliceAngle + (k * sliceAngle) \div den

\* index * sliceAngle + margin + Math.random() * (sliceAngle - margin * 2)
landingAngleOf(index, sliceAngle, k, den) ==
  LET margin == marginOf(sliceAngle)
  IN  index * sliceAngle + margin + (k * (sliceAngle - margin * 2)) \div den

\* the needed delta as raw % twoPi, of the sign of raw
neededDeltaSingleMod(landingAngle, startRotation) ==
  JsMod(pointerAngle - landingAngle - startRotation, TwoPi)

\* ((raw % twoPi) + twoPi) % twoPi with raw = pointerAngle - landingAngle - startRotation
neededDeltaOf(landingAngle, startRotation) ==
  LET raw == pointerAngle - landingAngle - startRotation
  IN  JsMod(JsMod(raw, TwoPi) + TwoPi, TwoPi)

\* minFullRotations + (2 + Math.floor(Math.random() * 4))
fullRotationsOf(k, den) == minFullRotations + (2 + (k * extraChoices) \div den)

\* totalRotations * msPerRotation + baseMs + Math.random() * 400
spinDurationOf(delta, k, den) ==
  (delta * msPerRotation) \div TwoPi + baseMs + (k * jitterMs) \div den

\* the elapsed time without the clamp
unclampedElapsed(elapsed, durationMs) == elapsed

\* clamp01((now - startTime) / durationMs) as the clamped elapsed time,
\* elapsed = now - startTime
clampedElapsed(elapsed, durationMs) == Max(0, Min(durationMs, elapsed))

\* the test t < 0 in place of t < 1: the first frame is the last
belowZero(elapsed, durationMs) == elapsed < 0

\* t < 1 for the clamped elapsed time
belowOne(elapsed, durationMs) == elapsed < durationMs

\* t rounded down to q/ProgressSteps
progressOf(elapsed, durationMs) == (elapsed * ProgressSteps) \div durationMs

Pow5(x) == x * x * x * x * x

\* easeOutQuint(t) = 1 - (1 - t)^5, as a numerator over Pow5(ProgressSteps)
easeOutQuint(q) == Pow5(ProgressSteps) - Pow5(ProgressSteps - q)

\* an interpolation that is at b for every t
lerpToEnd(a, b, easeNum) == b

\* lerp(a, b, t) = a + (b - a) * t with t = easeNum / Pow5(ProgressSteps)
lerp(a, b, easeNum) == a + ((b - a) * easeNum) \div Pow5(ProgressSteps)

KeysOf(list) == {list[i].value : i \in 1..Len(list)}

\* buildEqualRanges with the ranges shifted by one slice
buildEqualRangesFromOne(list) ==
  LET slice == TwoPi \div Max(1, Len(list))
      last(k) == CHOOSE i \in 1..Len(list) :
                   /\ list[i].value = k
                   /\ \A j \in (i + 1)..Len(list) : list[j].value # k
  IN  [k \in KeysOf(list) |->
         [start |-> last(k) * slice, end |-> (last(k) + 1) * slice]]

\* buildEqualRanges: a later item of the same value overwrites an earlier one.
\* The division rounds, as (Math.PI * 2) / n does in doubles.
buildEqualRanges(list) ==
  LET slice == TwoPi \div Max(1, Len(list))
      last(k) == CHOOSE i \in 1..Len(list) :
                   /\ list[i].value = k
                   /\ \A j \in (i + 1)..Len(list) : list[j].value # k
  IN  [k \in KeysOf(list) |->
         [start |-> (last(k) - 1) * slice, end |-> last(k) * slice]]

\* The blended layout of a reflow frame (step of the reflow effect)
blendRanges(prev, next, easeNum) ==
  LET from == buildEqualRanges(prev)
      to == buildEqualRanges(next)
  IN  [k \in KeysOf(next) |->
         IF k \in DOMAIN from
         THEN [start |-> lerp(from[k].start, to[k].start, easeNum),
               end |-> lerp(from[k].end, to[k].end, easeNum)]
         ELSE to[k]]

----------------------------------------------------------------------------
(* The item lists the parent passes *)

ListAB == <<Item("a", 1), Item("b", 3)>>
ListZero == <<Item("a", 0), Item("b", 0), Item("c", 100)>>
ListB == <<Item("b", 3)>>
ListBA == <<Item("b", 3), Item("a", 1)>>

\* lists assertValid throws on: empty, total weight 0, a negative weight
ListNone == <<>>
ListNoWeight == <<Item("a", 0)>>
ListNegative == <<Item("a", -1), Item("b", 3)>>

ItemLists == {ListAB, ListZero, ListB}
InvalidLists == {ListNone, ListNoWeight, ListNegative}

----------------------------------------------------------------------------
(* Frame requests *)

Handles == {p.h : p \in pending}

\* requestAnimationFrame returns a handle that no pending request has and
\* that no reference kept after the call holds
freshHandle(live) ==
  CHOOSE h \in 1..(Cardinality(live) + 1) :
    /\ h \notin live
    /\ \A g \in 1..(h - 1) : g \in live \/ g = NoHandle

\* a cancelAnimationFrame that cancels nothing
cancelNothing(queue, ref) == queue

\* cancelAnimationFrame(ref): nothing happens for a handle of no pending request
cancelAnimationFrame(queue, ref) == {p \in queue : p.h # ref}

\* A pending request: the step closure and what it captured.  elapsed is
\* now - startTime; waits says that the request was made by a frame callback
\* and so runs in the next frame; id numbers the spins and the pops; results
\* is the number of onResult calls before the closure was made; prev is the
\* item list of the render that made the closure.
BlankCallback ==
  [h |-> NoHandle, category |-> "", id |-> 0, results |-> 0, elapsed |-> 0,
   waits |-> FALSE, durationMs |-> 0,
   startRotation |-> 0, targetRotation |-> 0, index |-> NoIndex, value |-> "",
   prev |-> <<>>, next |-> <<>>, draw |-> 0, drawDen |-> 1, winner |-> NoIndex,
   landingAngle |-> 0, fullRotations |-> 0]

Draw(rotation, popIndex, popProgress) ==
  [rotation |-> rotation, popIndex |-> popIndex, popProgress |-> popProgress]

\* drawWheel: if (!canvas) return; the canvas is gone once the wheel is unmounted
drawWheel(rotation, popIndex, popProgress) ==
  IF mounted THEN Draw(rotation, popIndex, popProgress) ELSE lastDraw

----------------------------------------------------------------------------
(* State after the first render and its effects *)

Init ==
  /\ items \in ItemLists
  /\ isDisabled \in BOOLEAN
  /\ removeSelectedRequested \in BOOLEAN
  /\ mounted = TRUE
  /\ spinning = FALSE
  /\ selectedIndexRef = NoIndex
  /\ rotationRef = 0
  /\ prevItemsRef = items
  /\ activeRangesRef = buildEqualRanges(items)
  /\ removingRef = FALSE
  /\ lastRemoveReqRef = removeSelectedRequested
  /\ rafRef = NoHandle
  /\ reflowRafRef = NoHandle
  /\ pending = {}
  /\ lastDraw = Draw(0, NoIndex, 0)
  /\ resultLog = <<>>
  /\ removeLog = <<>>
  /\ popCount = 0
  /\ propChanges = 0
  /\ refused = ""

----------------------------------------------------------------------------
(* The next frame: FrameMs pass.  The browser runs every pending request  *)
(* in each frame, so the clock advances only when each has run.  Past its  *)
(* duration a request's elapsed time no longer matters (the step clamps t  *)
(* to 1), so it is kept at the duration.                                   *)

TickBy(ms) ==
  /\ pending # {}
  /\ \A p \in pending : p.waits
  /\ pending' = {[p EXCEPT !.elapsed = Min(p.durationMs, p.elapsed + ms),
                           !.waits = FALSE] : p \in pending}
  /\ refused' = ""
  /\ UNCHANGED <<items, isDisabled, removeSelectedRequested, mounted, spinning,
                 selectedIndexRef, rotationRef, prevItemsRef, activeRangesRef,
                 removingRef, lastRemoveReqRef, rafRef, reflowRafRef,
                 lastDraw, resultLog, removeLog, popCount, propChanges>>

Tick == TickBy(FrameMs)

----------------------------------------------------------------------------
(* spin(): the click handler of the SPIN button *)

\* spin()'s guard without isDisabled
spinRefusedEnabledOnly == spinning \/ Len(items) = 0

\* spin()'s guard without spinning
spinRefusedIdleOnly == isDisabled \/ Len(items) = 0

\* if (spinning || isDisabled) return; if (items.length === 0) return;
spinRefused == spinning \/ isDisabled \/ Len(items) = 0

\* The four Math.random() draws of one spin(), each k/den
Draws(pickDen, landDen, extraDen, jitterDen) ==
  [pick : 0..(pickDen - 1), pickDen : {pickDen},
   land : 0..(landDen - 1), landDen : {landDen},
   extra : 0..(extraDen - 1), extraDen : {extraDen},
   jitter : 0..(jitterDen - 1), jitterDen : {jitterDen}]

\* The step closure spin() makes from its draws d
spinCallback(d) ==
  LET winner == weightedPick(items, d.pick, d.pickDen)
      index == findIndex(items, items[winner + 1].value)
      sliceAngle == sliceAngleOf(items)
      landingAngle == landingAngleOf(index, sliceAngle, d.land, d.landDen)
      startRotation == rotationRef
      neededDelta == neededDeltaOf(landingAngle, startRotation)
      fullRotations == fullRotationsOf(d.extra, d.extraDen)
      delta == fullRotations * TwoPi + neededDelta
  IN  [BlankCallback EXCEPT
         !.category = "spin", !.id = Len(resultLog) + 1,
         !.results = Len(resultLog),
         !.durationMs = spinDurationOf(delta, d.jitter, d.jitterDen),
         !.startRotation = startRotation,
         !.targetRotation = startRotation + delta,
         !.index = index, !.value = items[winner + 1].value, !.prev = items,
         !.draw = d.pick, !.drawDen = d.pickDen, !.winner = winner,
         !.landingAngle = landingAngle, !.fullRotations = fullRotations]

\* draws is the set of outcomes of the Math.random() calls of one spin()
Spin(draws) ==
  /\ mounted
  /\ IF spinRefused
     THEN /\ refused' = "spin"
          /\ UNCHANGED <<spinning, rafRef, pending>>
     ELSE \E d \in draws :
          IF weightedPick(items, d.pick, d.pickDen) \notin 0..(Len(items) - 1)
          THEN \* winner is undefined: setSpinning(true), then winner.value throws
               /\ Len(resultLog) < MaxSpins
               /\ spinning' = TRUE
               /\ refused' = ""
               /\ UNCHANGED <<rafRef, pending>>
          ELSE LET h == freshHandle(Handles \cup {reflowRafRef})
               IN  /\ Len(resultLog) < MaxSpins
                   /\ spinning' = TRUE
                   /\ pending' = pending \cup {[spinCallback(d) EXCEPT !.h = h]}
                   /\ rafRef' = h
                   /\ refused' = ""
  /\ UNCHANGED <<items, isDisabled, removeSelectedRequested, mounted,
                 selectedIndexRef, rotationRef, prevItemsRef, activeRangesRef,
                 removingRef, lastRemoveReqRef, reflowRafRef, lastDraw,
                 resultLog, removeLog, popCount, propChanges>>

\* onResult?.(winner.value), with what the closure holds at the call
resultEntry(cb) ==
  [value |-> cb.value, id |-> cb.id, index |-> cb.index, items |-> cb.prev,
   winner |-> cb.winner, elapsed |-> cb.elapsed, durationMs |-> cb.durationMs]

\* rot of spin's step for a frame at now = startTime + elapsed:
\* startRotation + (targetRotation - startRotation) * easeOutQuint(t)
spinRotationAt(cb, elapsed) ==
  lerp(cb.startRotation, cb.targetRotation,
       easeOutQuint(progressOf(clampedElapsed(elapsed, cb.durationMs),
                               cb.durationMs)))

\* step of spin(), run by the browser for the pending request cb
SpinFrame(cb) ==
  LET elapsed == clampedElapsed(cb.elapsed, cb.durationMs)
      rot == spinRotationAt(cb, cb.elapsed)
      h == freshHandle((Handles \ {cb.h}) \cup {reflowRafRef})
  IN  /\ cb.category = "spin"
      /\ ~cb.waits
      /\ rotationRef' = rot
      /\ lastDraw' = drawWheel(rot, NoIndex, 0)
      /\ IF belowOne(elapsed, cb.durationMs)
         THEN /\ pending' = (pending \ {cb}) \cup {[cb EXCEPT !.h = h, !.waits = TRUE]}
              /\ rafRef' = h
              /\ refused' = ""
              /\ UNCHANGED <<selectedIndexRef, resultLog, spinning>>
         ELSE /\ pending' = pending \ {cb}
              /\ selectedIndexRef' = cb.index
              /\ resultLog' = Append(resultLog, resultEntry(cb))
              /\ spinning' = IF mounted THEN FALSE ELSE spinning
              /\ refused' = ""
              /\ UNCHANGED rafRef
      /\ UNCHANGED <<items, isDisabled, removeSelectedRequested, mounted,
                     prevItemsRef, activeRangesRef, removingRef,
                     lastRemoveReqRef, reflowRafRef, removeLog, popCount, propChanges>>

----------------------------------------------------------------------------
(* The pop effect: runs when the prop removeSelectedRequested changes *)

\* the pop effect's guards without removingRef.current
popRefusedNoRemoving ==
  \/ spinning \/ isDisabled
  \/ selectedIndexRef = NoIndex \/ selectedIndexRef < 0
  \/ selectedIndexRef >= Len(items)

\* the pop effect's guards without spinning
popRefusedNoSpinning ==
  \/ isDisabled
  \/ removingRef
  \/ selectedIndexRef = NoIndex \/ selectedIndexRef < 0
  \/ selectedIndexRef >= Len(items)

\* the pop effect's guards without isDisabled
popRefusedEnabledOnly ==
  \/ spinning
  \/ removingRef
  \/ selectedIndexRef = NoIndex \/ selectedIndexRef < 0
  \/ selectedIndexRef >= Len(items)

\* if (spinning || isDisabled) return; if (removingRef.current) return;
\* if (idx == null || idx < 0 || idx >= items.length) return;
popRefused ==
  \/ spinning \/ isDisabled
  \/ removingRef
  \/ selectedIndexRef = NoIndex \/ selectedIndexRef < 0
  \/ selectedIndexRef >= Len(items)

\* an edge memory that is never written
edgeMemoryKept(last, req) == last

\* lastRemoveReqRef.current after the pop effect ran with the flag at req:
\* the flag itself when it is down, true when it is up
edgeMemoryAfter(last, req) == IF ~req THEN req ELSE TRUE

SetRemoveRequested ==
  /\ mounted
  /\ removeSelectedRequested' = ~removeSelectedRequested
  /\ IF ~removeSelectedRequested'
     THEN \* the flag fell: lastRemoveReqRef.current = removeSelectedRequested
          /\ lastRemoveReqRef' =
               edgeMemoryAfter(lastRemoveReqRef, removeSelectedRequested')
          /\ refused' = ""
          /\ UNCHANGED <<removingRef, rafRef, pending, popCount>>
     ELSE IF lastRemoveReqRef = TRUE
     THEN /\ refused' = "remove"
          /\ UNCHANGED <<lastRemoveReqRef, removingRef, rafRef, pending, popCount>>
     ELSE /\ lastRemoveReqRef' =
               edgeMemoryAfter(lastRemoveReqRef, removeSelectedRequested')
          /\ IF popRefused
             THEN /\ refused' = "remove"
                  /\ UNCHANGED <<removingRef, rafRef, pending, popCount>>
             ELSE LET idx == selectedIndexRef
                      h == freshHandle(Handles \cup {reflowRafRef})
                  IN  /\ removingRef' = TRUE
                      /\ popCount' = popCount + 1
                      /\ pending' = pending \cup
                           {[BlankCallback EXCEPT
                               !.h = h, !.category = "pop", !.id = popCount + 1,
                               !.results = Len(resultLog),
                               !.durationMs = popDurationMs,
                               !.startRotation = rotationRef,
                               !.targetRotation = rotationRef, !.index = idx,
                               !.value = items[idx + 1].value, !.prev = items]}
                      /\ rafRef' = h
                      /\ refused' = ""
  /\ UNCHANGED <<items, isDisabled, mounted, spinning, selectedIndexRef,
                 rotationRef, prevItemsRef, activeRangesRef, reflowRafRef,
                 lastDraw, resultLog, removeLog, propChanges>>

\* onRemove?.(valueToRemove), with what the closure holds at the call
removeEntry(cb) ==
  [value |-> cb.value, id |-> cb.id, index |-> cb.index, results |-> cb.results,
   elapsed |-> cb.elapsed, durationMs |-> cb.durationMs]

\* step of the pop effect, run by the browser for the pending request cb
PopFrame(cb) ==
  LET elapsed == clampedElapsed(cb.elapsed, cb.durationMs)
      eased == easeOutQuint(progressOf(elapsed, cb.durationMs))
      h == freshHandle((Handles \ {cb.h}) \cup {reflowRafRef})
  IN  /\ cb.category = "pop"
      /\ ~cb.waits
      /\ IF belowOne(elapsed, cb.durationMs)
         THEN /\ lastDraw' = drawWheel(cb.startRotation, cb.index, eased)
              /\ pending' = (pending \ {cb}) \cup {[cb EXCEPT !.h = h, !.waits = TRUE]}
              /\ rafRef' = h
              /\ refused' = ""
              /\ UNCHANGED <<removingRef, selectedIndexRef, removeLog>>
         ELSE /\ pending' = pending \ {cb}
              /\ removingRef' = FALSE
              /\ selectedIndexRef' = NoIndex
              /\ removeLog' = Append(removeLog, removeEntry(cb))
              /\ lastDraw' = drawWheel(rotationRef, NoIndex, 0)
              /\ refused' = ""
              /\ UNCHANGED rafRef
      /\ UNCHANGED <<items, isDisabled, removeSelectedRequested, mounted,
                     spinning, rotationRef, prevItemsRef, activeRangesRef,
                     lastRemoveReqRef, reflowRafRef, resultLog, popCount, propChanges>>

----------------------------------------------------------------------------
(* The effects that run when the prop items changes *)

\* a reflow on every change of the count
reflowAnimatedAnyCount(prev, next) == Len(prev) # Len(next)

\* prev.length !== next.length && prev.length > 1 && next.length > 0
reflowAnimated(prev, next) ==
  Len(prev) # Len(next) /\ Len(prev) > 1 /\ Len(next) > 0

\* The cleanup of the sizing effect
sizingCleanup(queue) ==
  cancelAnimationFrame(cancelAnimationFrame(queue, rafRef), reflowRafRef)

\* an items effect that keeps the selection whatever the new list
selectionKept(sel, next) == sel

\* The items effect's update of the selection
selectionAfter(sel, next) ==
  IF sel # NoIndex /\ sel >= Len(next) THEN NoIndex ELSE sel

\* The parent passes a new item list: the effects with deps [items] run.
\* When assertValid throws, the effects after it do not run and React
\* unmounts the tree, which runs the sizing effect's cleanup.
SetItems(next) ==
  /\ mounted
  /\ propChanges' = propChanges + 1
  /\ items' = next
  /\ IF ~assertValid(next)
     THEN /\ mounted' = FALSE
          /\ pending' = sizingCleanup(pending)
          /\ refused' = ""
          /\ UNCHANGED <<selectedIndexRef, prevItemsRef, activeRangesRef,
                         reflowRafRef, lastDraw>>
     ELSE /\ selectedIndexRef' = selectionAfter(selectedIndexRef, next)
          /\ IF reflowAnimated(prevItemsRef, next)
             THEN LET queue == cancelAnimationFrame(pending, reflowRafRef)
                      h == freshHandle({p.h : p \in queue} \cup {rafRef})
                  IN  /\ pending' = queue \cup
                           {[BlankCallback EXCEPT
                               !.h = h, !.category = "reflow",
                               !.id = propChanges + 1,
                               !.durationMs = reflowDurationMs,
                               !.prev = prevItemsRef, !.next = next]}
                      /\ reflowRafRef' = h
                      /\ refused' = ""
                      /\ UNCHANGED <<activeRangesRef, lastDraw>>
             ELSE /\ activeRangesRef' = buildEqualRanges(next)
                  /\ lastDraw' = drawWheel(rotationRef, NoIndex, 0)
                  /\ refused' = ""
                  /\ UNCHANGED <<pending, reflowRafRef>>
          /\ prevItemsRef' = next
          /\ UNCHANGED mounted
  /\ UNCHANGED <<isDisabled, removeSelectedRequested, spinning,
                 rotationRef, removingRef, lastRemoveReqRef, rafRef,
                 resultLog, removeLog, popCount>>

\* step of the reflow effect, run by the browser for the pending request cb
ReflowFrame(cb) ==
  LET elapsed == clampedElapsed(cb.elapsed, cb.durationMs)
      eased == easeOutQuint(progressOf(elapsed, cb.durationMs))
      h == freshHandle((Handles \ {cb.h}) \cup {rafRef})
  IN  /\ cb.category = "reflow"
      /\ ~cb.waits
      /\ lastDraw' = drawWheel(rotationRef, NoIndex, 0)
      /\ IF belowOne(elapsed, cb.durationMs)
         THEN /\ activeRangesRef' = blendRanges(cb.prev, cb.next, eased)
              /\ pending' = (pending \ {cb}) \cup {[cb EXCEPT !.h = h, !.waits = TRUE]}
              /\ reflowRafRef' = h
              /\ refused' = ""
         ELSE /\ activeRangesRef' = buildEqualRanges(cb.next)
              /\ pending' = pending \ {cb}
              /\ refused' = ""
              /\ UNCHANGED reflowRafRef
      /\ UNCHANGED <<items, isDisabled, removeSelectedRequested, mounted,
                     spinning, selectedIndexRef, rotationRef, prevItemsRef,
                     removingRef, lastRemoveReqRef, rafRef, resultLog,
                     removeLog, popCount, propChanges>>

----------------------------------------------------------------------------
(* The other props, and unmount *)

SetDisabled ==
  /\ mounted
  /\ isDisabled' = ~isDisabled
  /\ refused' = ""
  /\ UNCHANGED <<items, removeSelectedRequested, mounted, spinning,
                 selectedIndexRef, rotationRef, prevItemsRef, activeRangesRef,
                 removingRef, lastRemoveReqRef, rafRef, reflowRafRef, pending,
                 lastDraw, resultLog, removeLog, popCount, propChanges>>

\* size (or dpr) changes: the sizing effect's cleanup, then the effect
SetSize ==
  /\ mounted
  /\ propChanges' = propChanges + 1
  /\ pending' = sizingCleanup(pending)
  /\ activeRangesRef' = buildEqualRanges(items)
  /\ lastDraw' = drawWheel(rotationRef, NoIndex, 0)
  /\ refused' = ""
  /\ UNCHANGED <<items, isDisabled, removeSelectedRequested, mounted, spinning,
                 selectedIndexRef, rotationRef, prevItemsRef, removingRef,
                 lastRemoveReqRef, rafRef, reflowRafRef, resultLog, removeLog,
                 popCount>>

Unmount ==
  /\ mounted
  /\ mounted' = FALSE
  /\ pending' = sizingCleanup(pending)
  /\ refused' = ""
  /\ UNCHANGED <<items, isDisabled, removeSelectedRequested, spinning,
                 selectedIndexRef, rotationRef, prevItemsRef, activeRangesRef,
                 removingRef, lastRemoveReqRef, rafRef, reflowRafRef,
                 lastDraw, resultLog, removeLog, popCount, propChanges>>

----------------------------------------------------------------------------
(* The spin plan as a function of its inputs: every valid list of up to    *)
(* MaxPlanItems items with weights from PlanWeights, every start rotation  *)
(* of PlanRotations, and draws of denominator PlanDen.                     *)

MaxPlanItems == 3      \* items per list
MaxPlanTurns == 4      \* start rotations are -MaxPlanTurns..MaxPlanTurns steps
PlanRotStep == 340     \* angle units per step of the start rotation
PlanDen == 4           \* the pick, landing and extra draws are k/PlanDen

PlanWeights == {0, 1, 3}
PlanValues == <<"a", "b", "c", "d", "e", "f">>

PlanListsOf(n) ==
  {[i \in 1..n |-> Item(PlanValues[i], w[i])] : w \in [1..n -> PlanWeights]}

PlanLists ==
  {l \in UNION {PlanListsOf(n) : n \in 1..MaxPlanItems} : assertValid(l)}
    \cup {ListZero}

PlanRotations == {r * PlanRotStep : r \in (-MaxPlanTurns)..MaxPlanTurns}

InitPlan ==
  /\ items \in PlanLists
  /\ isDisabled = FALSE
  /\ removeSelectedRequested = FALSE
  /\ mounted = TRUE
  /\ spinning = FALSE
  /\ selectedIndexRef = NoIndex
  /\ rotationRef \in PlanRotations
  /\ prevItemsRef = items
  /\ activeRangesRef = buildEqualRanges(items)
  /\ removingRef = FALSE
  /\ lastRemoveReqRef = FALSE
  /\ rafRef = NoHandle
  /\ reflowRafRef = NoHandle
  /\ pending = {}
  /\ lastDraw = Draw(rotationRef, NoIndex, 0)
  /\ resultLog = <<>>
  /\ removeLog = <<>>
  /\ popCount = 0
  /\ propChanges = 0
  /\ refused = ""

NextPlan == Spin(Draws(PlanDen, PlanDen, PlanDen, JitterDen))

SpecPlan == InitPlan /\ [][NextPlan]_vars

----------------------------------------------------------------------------
(* The layout under changes of the item list and of the size: no spin and  *)
(* no pop, frames ReflowFrameMs apart, MaxItemChanges changes.              *)

ReflowFrameMs == 140   \* the clock advances by this much between frames
MaxItemChanges == 3    \* changes of items and size per behaviour

ListFive ==
  <<Item("a", 1), Item("b", 1), Item("c", 1), Item("d", 1), Item("e", 1)>>
ListFour == <<Item("a", 1), Item("b", 1), Item("d", 1), Item("e", 1)>>

\* a list whose count does not divide the full turn: 41 * (2 pi / 41) is not
\* 2 pi in doubles, and ManyItems * (TwoPi \div ManyItems) is not TwoPi here
ManyItems == 41
ListMany == [i \in 1..ManyItems |-> Item(ToString(i), 1)]

LayoutLists == {ListAB, ListBA, ListZero, ListB, ListFive, ListFour, ListMany}

InitItems ==
  /\ items \in LayoutLists
  /\ isDisabled = FALSE
  /\ removeSelectedRequested = FALSE
  /\ mounted = TRUE
  /\ spinning = FALSE
  /\ selectedIndexRef = NoIndex
  /\ rotationRef = 0
  /\ prevItemsRef = items
  /\ activeRangesRef = buildEqualRanges(items)
  /\ removingRef = FALSE
  /\ lastRemoveReqRef = FALSE
  /\ rafRef = NoHandle
  /\ reflowRafRef = NoHandle
  /\ pending = {}
  /\ lastDraw = Draw(0, NoIndex, 0)
  /\ resultLog = <<>>
  /\ removeLog = <<>>
  /\ popCount = 0
  /\ propChanges = 0
  /\ refused = ""

NextItems ==
  \/ TickBy(ReflowFrameMs)
  \/ /\ propChanges < MaxItemChanges
     /\ \E next \in LayoutLists : SetItems(next)
  \/ \E cb \in pending : ReflowFrame(cb)
  \/ propChanges < MaxItemChanges /\ SetSize

SpecItems == InitItems /\ [][NextItems]_vars

----------------------------------------------------------------------------
(* The wheel without unmount (no Unmount, no list assertValid rejects), with *)
(* the browser delivering every requested frame and time advancing.         *)

NextLive ==
  \/ Tick
  \/ Spin(Draws(PickDen, LandDen, ExtraDen, JitterDen))
  \/ \E cb \in pending : SpinFrame(cb)
  \/ SetRemoveRequested
  \/ \E cb \in pending : PopFrame(cb)
  \/ /\ propChanges < MaxPropChanges
     /\ \E next \in ItemLists : SetItems(next)
  \/ \E cb \in pending : ReflowFrame(cb)
  \/ SetDisabled
  \/ propChanges < MaxPropChanges /\ SetSize

FairFrames ==
  /\ WF_vars(Tick)
  /\ WF_vars(\E cb \in pending : SpinFrame(cb))
  /\ WF_vars(\E cb \in pending : PopFrame(cb))
  /\ WF_vars(\E cb \in pending : ReflowFrame(cb))

SpecLive == Init /\ [][NextLive]_vars /\ FairFrames

----------------------------------------------------------------------------
(* The assembled application: App passes isDisabled = modalOpen,            *)
(* removeSelectedRequested = removeRequested and items = spinnerItems (one  *)
(* item per row, rows with ids and weights as in ItemLists).  onResult      *)
(* opens the modal; closing the modal starts its wipe-out, whose end sets   *)
(* removeRequested; onRemove removes the row and resets removeRequested.    *)
(* The modal's exiting state is the pending wipe-out animation.            *)

wipeOutMs == 520
WipeHandle == -1

WipeCallbacks == {cb \in pending : cb.category = "wipe"}

\* removeBySpinnerValue: the first row with that id is filtered out; rows
\* stay as they are when none matches
removeBySpinnerValue(rows, value) ==
  IF \E i \in 1..Len(rows) : rows[i].value = value
  THEN LET idx == CHOOSE i \in 1..Len(rows) :
                    /\ rows[i].value = value
                    /\ \A j \in 1..(i - 1) : rows[j].value # value
       IN  [i \in 1..(Len(rows) - 1) |->
              IF i < idx THEN rows[i] ELSE rows[i + 1]]
  ELSE rows

\* the SPIN button of the wheel
AppSpin == Spin(Draws(PickDen, LandDen, ExtraDen, JitterDen))

\* spin's step in the application: on the last frame onResult sets
\* selectedValue and modalOpen, and the wheel is rendered with isDisabled
AppSpinFrame(cb) ==
  IF belowOne(clampedElapsed(cb.elapsed, cb.durationMs), cb.durationMs)
  THEN SpinFrame(cb)
  ELSE /\ cb.category = "spin"
       /\ ~cb.waits
       /\ rotationRef' = spinRotationAt(cb, cb.elapsed)
       /\ lastDraw' = drawWheel(spinRotationAt(cb, cb.elapsed), NoIndex, 0)
       /\ pending' = pending \ {cb}
       /\ selectedIndexRef' = cb.index
       /\ resultLog' = Append(resultLog, resultEntry(cb))
       /\ spinning' = IF mounted THEN FALSE ELSE spinning
       /\ isDisabled' = TRUE
       /\ refused' = ""
       /\ UNCHANGED <<items, removeSelectedRequested, mounted, prevItemsRef,
                      activeRangesRef, removingRef, lastRemoveReqRef, rafRef,
                      reflowRafRef, removeLog, popCount, propChanges>>

\* RevealModal.requestClose on the open modal: setExiting(true), onClose()
ModalClose ==
  /\ mounted
  /\ isDisabled
  /\ isDisabled' = FALSE
  /\ pending' = pending \cup
       (IF WipeCallbacks = {}
        THEN {[BlankCallback EXCEPT !.h = WipeHandle, !.category = "wipe",
                                    !.durationMs = wipeOutMs, !.waits = TRUE,
                                    !.value = resultLog[Len(resultLog)].value]}
        ELSE {})
  /\ refused' = ""
  /\ UNCHANGED <<items, removeSelectedRequested, mounted, spinning,
                 selectedIndexRef, rotationRef, prevItemsRef, activeRangesRef,
                 removingRef, lastRemoveReqRef, rafRef, reflowRafRef, lastDraw,
                 resultLog, removeLog, popCount, propChanges>>

\* onAnimationEnd of the wipe-out: onRemove(value) sets removeRequested and
\* setExiting(false); when the flag changes the wheel's pop effect runs
WipeEnd(cb) ==
  LET queue == pending \ {cb}
      idx == selectedIndexRef
      h == freshHandle({p.h : p \in queue} \cup {reflowRafRef})
  IN  /\ cb.category = "wipe"
      /\ ~cb.waits
      /\ IF belowOne(cb.elapsed, cb.durationMs)
         THEN /\ pending' = queue \cup {[cb EXCEPT !.waits = TRUE]}
              /\ refused' = ""
              /\ UNCHANGED <<removeSelectedRequested, lastRemoveReqRef,
                             removingRef, rafRef, popCount>>
         ELSE IF removeSelectedRequested \/ ~mounted
         THEN \* the flag is up already: no prop changes, no effect runs
              /\ pending' = queue
              /\ refused' = ""
              /\ UNCHANGED <<removeSelectedRequested, lastRemoveReqRef,
                             removingRef, rafRef, popCount>>
         ELSE /\ removeSelectedRequested' = TRUE
              /\ IF lastRemoveReqRef = TRUE
                 THEN /\ pending' = queue
                      /\ refused' = "remove"
                      /\ UNCHANGED <<lastRemoveReqRef, removingRef, rafRef,
                                     popCount>>
                 ELSE /\ lastRemoveReqRef' =
                           edgeMemoryAfter(lastRemoveReqRef, TRUE)
                      /\ IF popRefused
                         THEN /\ pending' = queue
                              /\ refused' = "remove"
                              /\ UNCHANGED <<removingRef, rafRef, popCount>>
                         ELSE /\ removingRef' = TRUE
                              /\ popCount' = popCount + 1
                              /\ pending' = queue \cup
                                   {[BlankCallback EXCEPT
                                       !.h = h, !.category = "pop",
                                       !.id = popCount + 1,
                                       !.results = Len(resultLog),
                                       !.durationMs = popDurationMs,
                                       !.startRotation = rotationRef,
                                       !.targetRotation = rotationRef,
                                       !.index = idx,
                                       !.value = items[idx + 1].value,
                                       !.prev = items]}
                              /\ rafRef' = h
                              /\ refused' = ""
      /\ UNCHANGED <<items, isDisabled, mounted, spinning, selectedIndexRef,
                     rotationRef, prevItemsRef, activeRangesRef, reflowRafRef,
                     lastDraw, resultLog, removeLog, propChanges>>

\* the pop's step in the application: on the last frame onRemove removes
\* the row and resets removeRequested; the wheel is rendered with the new
\* items and the flag down, and its items, reflow and pop effects run
AppPopFrame(cb) ==
  IF belowOne(clampedElapsed(cb.elapsed, cb.durationMs), cb.durationMs)
  THEN PopFrame(cb)
  ELSE LET next == removeBySpinnerValue(items, cb.value)
           queue == pending \ {cb}
           cancelled == cancelAnimationFrame(queue, reflowRafRef)
           h == freshHandle({p.h : p \in cancelled} \cup {rafRef})
       IN  /\ cb.category = "pop"
           /\ ~cb.waits
           /\ removingRef' = FALSE
           /\ removeLog' = Append(removeLog, removeEntry(cb))
           /\ selectedIndexRef' = NoIndex
           /\ items' = next
           /\ removeSelectedRequested' = FALSE
           /\ refused' = ""
           /\ IF next # items /\ ~assertValid(next)
              THEN \* assertValid throws in the items effect
                   /\ mounted' = FALSE
                   /\ pending' =
                        cancelAnimationFrame(
                          cancelAnimationFrame(queue, rafRef), reflowRafRef)
                   /\ lastDraw' = drawWheel(rotationRef, NoIndex, 0)
                   /\ UNCHANGED <<prevItemsRef, activeRangesRef, reflowRafRef,
                                  lastRemoveReqRef>>
              ELSE /\ lastRemoveReqRef' =
                        IF mounted /\ removeSelectedRequested
                        THEN edgeMemoryAfter(lastRemoveReqRef, FALSE)
                        ELSE lastRemoveReqRef
                   /\ IF mounted /\ next # items
                               /\ reflowAnimated(prevItemsRef, next)
                      THEN /\ pending' = cancelled \cup
                                {[BlankCallback EXCEPT
                                    !.h = h, !.category = "reflow",
                                    !.id = Len(removeLog) + 1,
                                    !.durationMs = reflowDurationMs,
                                    !.prev = prevItemsRef, !.next = next]}
                           /\ reflowRafRef' = h
                           /\ lastDraw' = drawWheel(rotationRef, NoIndex, 0)
                           /\ UNCHANGED activeRangesRef
                      ELSE /\ pending' = queue
                           /\ activeRangesRef' =
                                IF mounted /\ next # items
                                THEN buildEqualRanges(next)
                                ELSE activeRangesRef
                           /\ lastDraw' = drawWheel(rotationRef, NoIndex, 0)
                           /\ UNCHANGED reflowRafRef
                   /\ prevItemsRef' =
                        IF mounted /\ next # items THEN next ELSE prevItemsRef
                   /\ UNCHANGED mounted
           /\ UNCHANGED <<isDisabled, spinning, rotationRef, rafRef, resultLog,
                          popCount, propChanges>>

NextApp ==
  \/ Tick
  \/ AppSpin
  \/ \E cb \in pending : AppSpinFrame(cb)
  \/ ModalClose
  \/ \E cb \in pending : WipeEnd(cb)
  \/ \E cb \in pending : AppPopFrame(cb)
  \/ \E cb \in pending : ReflowFrame(cb)

InitApp ==
  /\ Init
  /\ ~isDisabled
  /\ ~removeSelectedRequested

FairApp ==
  /\ WF_vars(Tick)
  /\ WF_vars(\E cb \in pending : AppSpinFrame(cb))
  /\ WF_vars(\E cb \in pending : WipeEnd(cb))
  /\ WF_vars(\E cb \in pending : AppPopFrame(cb))
  /\ WF_vars(\E cb \in pending : ReflowFrame(cb))

SpecApp == InitApp /\ [][NextApp]_vars /\ FairApp

----------------------------------------------------------------------------

Next ==
  \/ Tick
  \/ Spin(Draws(PickDen, LandDen, ExtraDen, JitterDen))
  \/ \E cb \in pending : SpinFrame(cb)
  \/ SetRemoveRequested
  \/ \E cb \in pending : PopFrame(cb)
  \/ /\ propChanges < MaxPropChanges
     /\ \E next \in ItemLists \cup InvalidLists : SetItems(next)
  \/ \E cb \in pending : ReflowFrame(cb)
  \/ SetDisabled
  \/ propChanges < MaxPropChanges /\ SetSize
  \/ Unmount

Spec == Init /\ [][Next]_vars

----------------------------------------------------------------------------
(* Properties *)

SpinCallbacks == {cb \in pending : cb.category = "spin"}
PopCallbacks == {cb \in pending : cb.category = "pop"}

\* C1: every pop animation that ran its last frame has called onRemove
\* exactly once, in the order the animations started and on a frame with
\* t = 1; a pop animation in progress has not called it, and only one is in
\* progress at a time.
C1_RemoveOncePerPop ==
  /\ Len(removeLog) = popCount - (IF removingRef THEN 1 ELSE 0)
  /\ \A i \in 1..Len(removeLog) :
       /\ removeLog[i].id = i
       /\ removeLog[i].elapsed >= removeLog[i].durationMs
  /\ \A cb \in PopCallbacks : removingRef /\ cb.id = popCount
  /\ Cardinality(PopCallbacks) <= 1

\* A pop has finished and the flag is still up: onRemove was called once.
C1_Witness ==
  /\ popCount = 1
  /\ Len(removeLog) = 1
  /\ ~removingRef
  /\ removeSelectedRequested
  /\ PopCallbacks = {}

\* C2: the value passed to onRemove is the value of the onResult call that
\* came last before the confirmation.
C2_RemovesLastWinner ==
  \A i \in 1..Len(removeLog) :
    /\ removeLog[i].results >= 1
    /\ removeLog[i].value = resultLog[removeLog[i].results].value

\* C3: the onResult calls are one per spin, in the order of the spins, each
\* on a frame with t = 1 and with the value of the item weightedPick returned
\* when the spin started, at whose index the closure's index points; a spin
\* in flight has not called onResult; the step that calls onResult appends
\* one call, ends one spin's requests and sets the selection to the index.
C3_ResultInv ==
  /\ \A i \in 1..Len(resultLog) :
       LET e == resultLog[i]
       IN  /\ e.id = i
           /\ e.elapsed >= e.durationMs
           /\ e.winner \in 0..(Len(e.items) - 1)
           /\ e.value = e.items[e.winner + 1].value
           /\ e.index \in 0..(Len(e.items) - 1)
           /\ e.items[e.index + 1].value = e.value
  /\ \A cb \in SpinCallbacks : cb.id = Len(resultLog) + 1
  /\ Cardinality(SpinCallbacks) <= 1

C3_ResultStep ==
  resultLog' # resultLog =>
    /\ Len(resultLog') = Len(resultLog) + 1
    /\ SubSeq(resultLog', 1, Len(resultLog)) = resultLog
    /\ selectedIndexRef' = resultLog'[Len(resultLog')].index
    /\ \E cb \in SpinCallbacks :
         /\ cb.id = Len(resultLog')
         /\ cb.value = resultLog'[Len(resultLog')].value
         /\ \A q \in pending' : q.category = "spin" => q.id # cb.id

C3_ResultOncePerSpin == [][C3_ResultStep]_vars /\ []C3_ResultInv

\* Two spins have finished with different winners; the selection is the second's.
C3_Witness ==
  /\ Len(resultLog) = 2
  /\ resultLog[1].value # resultLog[2].value
  /\ selectedIndexRef = resultLog[2].index
  /\ ~spinning

\* C4: weightedPick returns an item of the list: every accepted spin has its
\* frame request (winner.value did not throw), the position picked is one of
\* the list, and the value the spin keeps is that item's.
C4_PickInList ==
  /\ (spinning /\ resultLog = <<>>) => SpinCallbacks # {}
  /\ \A cb \in SpinCallbacks :
       /\ cb.winner \in 0..(Len(cb.prev) - 1)
       /\ cb.value = cb.prev[cb.winner + 1].value

\* The largest draw on a list of three items picked the last one.
C4_Witness ==
  \E cb \in SpinCallbacks :
    /\ Len(cb.prev) = 3
    /\ cb.draw = cb.drawDen - 1
    /\ cb.winner = 2

\* C5: the item weightedPick returns has a positive weight.
C5_ZeroWeightNeverWins ==
  \A cb \in SpinCallbacks :
    cb.winner \in 0..(Len(cb.prev) - 1) => cb.prev[cb.winner + 1].weight > 0

\* C6: weightedPick maps r = (draw/drawDen) * total to the item whose stretch
\* (sum of the weights before it, that sum plus its weight] holds r, r = 0
\* going to the first item; the stretches partition (0, total] and the
\* stretch of an item is as long as its weight.
C6_PickByWeightStretch ==
  \A cb \in SpinCallbacks :
    LET list == cb.prev
        i == cb.winner + 1
        r == cb.draw * SumWeights(list)
        before == SumWeights(SubSeq(list, 1, i - 1)) * cb.drawDen
        upto == SumWeights(SubSeq(list, 1, i)) * cb.drawDen
    IN  /\ i \in 1..Len(list)
        /\ \/ before < r /\ r <= upto
           \/ r = 0 /\ i = 1

\* On [{a,1},{b,3}] a draw inside b's stretch picked b.
C6_Witness ==
  \E cb \in SpinCallbacks :
    /\ cb.prev = ListAB
    /\ cb.value = "b"
    /\ cb.draw * SumWeights(cb.prev) > cb.drawDen

\* C7: the target rotation is the start rotation plus k full turns plus a
\* needed delta in [0, 2 pi), k being the spin's number of full rotations, one
\* of 4..7.
C7_TargetIsTurnsPlusDelta ==
  \A cb \in SpinCallbacks :
    LET needed == cb.targetRotation - cb.startRotation - cb.fullRotations * TwoPi
    IN  /\ cb.fullRotations \in 4..7
        /\ needed >= 0
        /\ needed < TwoPi

\* A spin of 7 full rotations from a negative start rotation.
C7_Witness ==
  \E cb \in SpinCallbacks :
    /\ cb.fullRotations = 7
    /\ cb.startRotation < 0
    /\ cb.targetRotation - cb.startRotation > 7 * TwoPi

\* C8: at the target rotation the angle of the wheel under the pointer is in
\* the picked item's slice of the equal partition, 15% of the slice or more
\* from either boundary, and target + landing is the pointer angle modulo a
\* full turn.
C8_PointerInsideSlice ==
  \A cb \in SpinCallbacks :
    LET slice == TwoPi \div Len(cb.prev)
        margin == (slice * 15) \div 100
        under == (pointerAngle - cb.targetRotation) % TwoPi
    IN  /\ (cb.targetRotation + cb.landingAngle - pointerAngle) % TwoPi = 0
        /\ cb.prev[cb.index + 1].value = cb.value
        /\ under >= cb.index * slice + margin
        /\ under <= (cb.index + 1) * slice - margin

\* A spin from a negative start rotation and one from beyond a full turn,
\* to an item that is not the first.
C8_Witness ==
  \E cb \in SpinCallbacks :
    /\ cb.index > 0
    /\ cb.startRotation < -TwoPi \/ cb.startRotation > TwoPi
    /\ cb.landingAngle > cb.index * (TwoPi \div Len(cb.prev))

\* The flag rises in this step while isDisabled is true.
RisingEdgeWhileDisabled ==
  /\ ~removeSelectedRequested
  /\ removeSelectedRequested'
  /\ isDisabled

\* C9 as stated: the rising edge while disabled changes nothing of the wheel,
\* the edge memory included, and requests no pop frame.
C9_DisabledEdgeChangesNothing ==
  [][RisingEdgeWhileDisabled =>
       UNCHANGED <<selectedIndexRef, removingRef, lastRemoveReqRef, rotationRef,
                   activeRangesRef, spinning, rafRef, reflowRafRef, pending,
                   lastDraw, resultLog, removeLog, popCount>>]_vars

\* C9: the rising edge while disabled changes nothing of the wheel but the
\* edge memory, which records the flag as up; no pop frame is requested and
\* onRemove is not called.
C9_DisabledEdgeOnlyRecorded ==
  [][RisingEdgeWhileDisabled =>
       /\ lastRemoveReqRef' = TRUE
       /\ UNCHANGED <<selectedIndexRef, removingRef, rotationRef,
                      activeRangesRef, spinning, rafRef, reflowRafRef, pending,
                      lastDraw, resultLog, removeLog, popCount>>]_vars

\* The flag rose while disabled and nothing else stood in the pop's way.
C9_Witness ==
  /\ refused = "remove"
  /\ isDisabled
  /\ removeSelectedRequested
  /\ lastRemoveReqRef = TRUE
  /\ selectedIndexRef # NoIndex
  /\ selectedIndexRef < Len(items)
  /\ ~spinning
  /\ ~removingRef

\* C10: while isDisabled is true or a spin is in flight no step makes a new
\* spin (no pick, no frame request), and the step of a refused trigger leaves
\* rotation, selection and everything else as it was, with no onResult call.
C10_RefusedSpinIsNoOp ==
  [][(isDisabled \/ spinning \/ SpinCallbacks # {}) =>
       /\ \A q \in pending' :
            q.category = "spin" => \E p \in SpinCallbacks : p.id = q.id
       /\ refused' = "spin" =>
            UNCHANGED <<items, isDisabled, removeSelectedRequested, mounted,
                        spinning, selectedIndexRef, rotationRef, prevItemsRef,
                        activeRangesRef, removingRef, lastRemoveReqRef, rafRef,
                        reflowRafRef, pending, lastDraw, resultLog, removeLog,
                        popCount, propChanges>>]_vars

\* A trigger was refused because the wheel is disabled, with no spin in flight.
C10_Witness ==
  /\ refused = "spin"
  /\ isDisabled
  /\ ~spinning
  /\ SpinCallbacks = {}
  /\ Len(items) > 0

ReflowCallbacks == {cb \in pending : cb.category = "reflow"}

\* C11: a mounted wheel has a list assertValid accepts, and so has every spin
\* in flight and every onResult call; the step that passes a list assertValid
\* throws on unmounts the wheel without a draw and without a new frame
\* request, so no spin is accepted on that list.
C11_ValidInv ==
  /\ mounted =>
       /\ Len(items) > 0
       /\ SumWeights(items) > 0
       /\ \A i \in 1..Len(items) : items[i].weight >= 0
  /\ \A cb \in SpinCallbacks : Len(cb.prev) > 0 /\ SumWeights(cb.prev) > 0
  /\ \A i \in 1..Len(resultLog) :
       Len(resultLog[i].items) > 0 /\ SumWeights(resultLog[i].items) > 0

C11_InvalidStep ==
  (items' # items /\ (Len(items') = 0 \/ SumWeights(items') <= 0
                        \/ \E i \in 1..Len(items') : items'[i].weight < 0)) =>
    /\ ~mounted'
    /\ pending' \subseteq pending
    /\ UNCHANGED <<lastDraw, spinning, selectedIndexRef, rotationRef,
                   activeRangesRef, resultLog, removeLog>>

C12_OneReflowInv ==
  /\ Cardinality(ReflowCallbacks) <= 1
  /\ \A cb \in ReflowCallbacks : cb.h = reflowRafRef /\ cb.id <= propChanges

C12_ReflowStartStep ==
  \A q \in pending' :
    (q.category = "reflow" /\ q.id = propChanges' /\ propChanges' # propChanges)
      => \A p \in pending' : p.category = "reflow" => p = q

C12_SupersededReflowCancelled ==
  [][C12_ReflowStartStep]_vars /\ []C12_OneReflowInv

\* A second reflow has started while the layout is a blend of the first.
C12_Witness ==
  \E cb \in ReflowCallbacks :
    /\ cb.id = 2
    /\ cb.elapsed = 0
    /\ \A l \in LayoutLists : activeRangesRef # buildEqualRanges(l)

\* C13: at most one frame request is pending per category, and the handle
\* kept for the category (rafRef for spin and pop, reflowRafRef for reflow)
\* is the handle of each pending request of that category.
C13_HandleNamesPendingRequest ==
  /\ Cardinality(SpinCallbacks) <= 1
  /\ Cardinality(PopCallbacks) <= 1
  /\ Cardinality(ReflowCallbacks) <= 1
  /\ \A cb \in SpinCallbacks \cup PopCallbacks : cb.h = rafRef
  /\ \A cb \in ReflowCallbacks : cb.h = reflowRafRef

\* C14: once the wheel is unmounted no step writes the rotation, the layout
\* or the selection, draws, or calls onResult or onRemove.
C14_NothingRunsAfterUnmount ==
  [][~mounted =>
       UNCHANGED <<rotationRef, activeRangesRef, selectedIndexRef, removingRef,
                   lastDraw, resultLog, removeLog>>]_vars

\* C15: while a pop frame request is pending no step writes the rotation, and
\* every draw uses the rotation the pop started with.
C15_RotationFrozenDuringPop ==
  [][\A cb \in PopCallbacks :
       /\ rotationRef' = rotationRef
       /\ rotationRef = cb.startRotation
       /\ lastDraw' # lastDraw => lastDraw'.rotation = cb.startRotation]_vars

\* C16: whenever no reflow frame request is pending the active layout is the
\* equal partition of the current item list.
C16_SettledLayoutIsEqualPartition ==
  ReflowCallbacks = {} => activeRangesRef = buildEqualRanges(items)

----------------------------------------------------------------------------
\* C17 as stated: buildEqualRanges over N >= 1 items with unique values gives
\* item i the range [i*w, (i+1)*w) with w = 2 pi / N; the boundaries increase
\* strictly, each range starts where the previous one ends, and the widths
\* sum to exactly one full turn.
UniqueValues(list) == Cardinality(KeysOf(list)) = Len(list)

RangesOfItems == buildEqualRanges(items)

SumWidths(list, ranges) ==
  LET RECURSIVE Sum(_)
      Sum(i) == IF i = 0 THEN 0
                ELSE Sum(i - 1)
                       + (ranges[list[i].value].end
                            - ranges[list[i].value].start)
  IN  Sum(Len(list))

C17_ShapeOfRanges ==
  LET n == Len(items)
      w == TwoPi \div n
      r == RangesOfItems
  IN  /\ DOMAIN r = KeysOf(items)
      /\ \A i \in 1..n :
           /\ r[items[i].value].start = (i - 1) * w
           /\ r[items[i].value].end = i * w
           /\ r[items[i].value].start < r[items[i].value].end
      /\ \A i \in 2..n :
           r[items[i].value].start = r[items[i - 1].value].end
      /\ r[items[1].value].start = 0

C17_WidthsSumToFullTurn ==
  (Len(items) >= 1 /\ UniqueValues(items)) =>
    /\ C17_ShapeOfRanges
    /\ SumWidths(items, RangesOfItems) = TwoPi

\* C17 amended: same shape; the widths sum to N*w, which is the full turn
\* when the division 2 pi / N is exact and differs from it by the rounding
\* of that division (less than one unit per item) otherwise.
C17_WidthsSumToRoundedTurn ==
  (Len(items) >= 1 /\ UniqueValues(items)) =>
    /\ C17_ShapeOfRanges
    /\ SumWidths(items, RangesOfItems) = Len(items) * (TwoPi \div Len(items))
    /\ TwoPi - SumWidths(items, RangesOfItems) >= 0
    /\ TwoPi - SumWidths(items, RangesOfItems) < Len(items)
    /\ (TwoPi % Len(items) = 0) => SumWidths(items, RangesOfItems) = TwoPi

\* the layout of the many-item list is in use and falls short of the turn,
\* after the list was passed in by a change of items
C17_Witness ==
  /\ items = ListMany
  /\ propChanges > 0
  /\ activeRangesRef = RangesOfItems
  /\ activeRangesRef[items[Len(items)].value].end # TwoPi

----------------------------------------------------------------------------
\* C18: the reflow blend at progress 0 gives every key present in both
\* layouts its range in the old layout, at progress 1 its range in the new
\* layout, and at every progress gives a key present only in the new layout
\* its new range unchanged; keys absent from the new item list never appear
\* in the blended layout.  Checked for the blend of every reflow in flight
\* at every progress, and for the layout each reflow frame writes.
blendAt(cb, q) == blendRanges(cb.prev, cb.next, easeOutQuint(q))

C18_BlendInv ==
  \A cb \in ReflowCallbacks :
    LET from == buildEqualRanges(cb.prev)
        to == buildEqualRanges(cb.next)
    IN  \A q \in 0..ProgressSteps :
          LET blended == blendAt(cb, q)
          IN  /\ DOMAIN blended = KeysOf(cb.next)
              /\ \A k \in DOMAIN blended :
                   IF k \in DOMAIN from
                   THEN /\ (q = 0) => blended[k] = from[k]
                        /\ (q = ProgressSteps) => blended[k] = to[k]
                   ELSE blended[k] = to[k]

\* a step that writes the layout without a change of props is a reflow frame
C18_FrameStep ==
  (activeRangesRef' # activeRangesRef /\ propChanges' = propChanges) =>
    \E cb \in ReflowCallbacks :
      LET from == buildEqualRanges(cb.prev)
          to == buildEqualRanges(cb.next)
      IN  /\ DOMAIN activeRangesRef' = KeysOf(cb.next)
          /\ \A k \in KeysOf(cb.next) \ KeysOf(cb.prev) :
               activeRangesRef'[k] = to[k]
          /\ \A k \in KeysOf(cb.prev) \ KeysOf(cb.next) :
               k \notin DOMAIN activeRangesRef'
          /\ (\A p \in pending' : p.category = "reflow" => p.id # cb.id) =>
               activeRangesRef' = to

C18_BlendEndpoints == [][C18_FrameStep]_vars /\ []C18_BlendInv

\* a reflow that adds a key and drops none is part-way: the layout in use is
\* its blend, the shared key "b" lies strictly between its old and new range
\* and the new key "c" has its new range
C18_Witness ==
  \E cb \in ReflowCallbacks :
    LET from == buildEqualRanges(cb.prev)
        to == buildEqualRanges(cb.next)
        q == progressOf(cb.elapsed, cb.durationMs)
    IN  /\ cb.prev = ListAB
        /\ cb.next = ListZero
        /\ cb.waits
        /\ q > 0 /\ q < ProgressSteps
        /\ activeRangesRef = blendAt(cb, q)
        /\ activeRangesRef["b"].end < from["b"].end
        /\ activeRangesRef["b"].end > to["b"].end
        /\ activeRangesRef["c"] = to["c"]
        /\ "c" \notin DOMAIN from

----------------------------------------------------------------------------
\* C19: when the item list changes while a selection is recorded and the
\* recorded index is not within the new list's range, the selection is
\* cleared and onRemove is not called for it: not by that step, which starts
\* no pop either, and not on a later confirmation edge, since a cleared
\* selection stays cleared until a spin lands again, an edge without a
\* selection starts no pop, and every pop that starts is for a selection
\* within the range of the list at that edge.
SelectionOutOfRange ==
  /\ items' # items
  /\ mounted'
  /\ selectedIndexRef # NoIndex
  /\ selectedIndexRef >= Len(items')

C19_ClearedStep ==
  /\ SelectionOutOfRange =>
       /\ selectedIndexRef' = NoIndex
       /\ removeLog' = removeLog
       /\ popCount' = popCount
       /\ PopCallbacks' \subseteq PopCallbacks
  /\ (selectedIndexRef = NoIndex /\ selectedIndexRef' # NoIndex) =>
       Len(resultLog') = Len(resultLog) + 1
  /\ (selectedIndexRef = NoIndex /\ ~removingRef) =>
       /\ removeLog' = removeLog
       /\ popCount' = popCount
       /\ ~removingRef'
  /\ popCount' # popCount =>
       /\ selectedIndexRef \in 0..(Len(items) - 1)
       /\ \E cb \in PopCallbacks' :
            /\ cb.id = popCount'
            /\ cb.index = selectedIndexRef
            /\ cb.prev = items

C19_OutOfRangeSelectionCleared == [][C19_ClearedStep]_vars

\* the winner of the last spin had an index the new list does not have: the
\* selection is gone, and the confirmation edge that came after was refused
\* with nothing else in its way and no onRemove call
C19_Witness ==
  /\ mounted
  /\ propChanges > 0
  /\ resultLog # <<>>
  /\ resultLog[Len(resultLog)].index >= Len(items)
  /\ selectedIndexRef = NoIndex
  /\ refused = "remove"
  /\ removeSelectedRequested
  /\ ~spinning /\ ~isDisabled /\ ~removingRef
  /\ popCount = 0
  /\ removeLog = <<>>

----------------------------------------------------------------------------
\* C20: a pop animation starts only on a rising edge of the confirmation
\* flag at which a selection is recorded and in range, no spin is in flight,
\* the wheel is not disabled and no pop is in progress; a rising edge that
\* arrives while a pop is in progress starts no second pop and leaves the
\* running one as it was (its request, its progress, its slice and value).
RisingEdge == ~removeSelectedRequested /\ removeSelectedRequested'

C20_PopStartStep ==
  /\ (popCount' # popCount \/ ~(PopCallbacks' \subseteq
                                   {p \in pending' : \E q \in PopCallbacks :
                                                       q.id = p.id})) =>
       /\ RisingEdge
       /\ popCount' = popCount + 1
       /\ selectedIndexRef # NoIndex
       /\ selectedIndexRef \in 0..(Len(items) - 1)
       /\ ~spinning
       /\ SpinCallbacks = {}
       /\ ~isDisabled
       /\ ~removingRef
       /\ PopCallbacks = {}
  /\ (RisingEdge /\ (removingRef \/ PopCallbacks # {})) =>
       UNCHANGED <<pending, rafRef, removingRef, popCount, removeLog,
                   selectedIndexRef, rotationRef, lastDraw, spinning,
                   resultLog>>

C20_PopStartsOnlyWhenIdle == [][C20_PopStartStep]_vars

\* the flag rose again while a pop that has drawn frames is in progress, with
\* nothing but that pop in the way: the edge was refused
C20_Witness ==
  /\ refused = "remove"
  /\ removeSelectedRequested
  /\ removingRef
  /\ ~spinning /\ ~isDisabled
  /\ selectedIndexRef \in 0..(Len(items) - 1)
  /\ popCount = 1
  /\ \E cb \in PopCallbacks : cb.elapsed > 0

----------------------------------------------------------------------------
\* C21: the removal flag is interpreted only on its rising edge.  A step at
\* which the flag stays up (a frame of a spin or of a pop, their completions,
\* a change of items, size or isDisabled) or falls starts no pop; a pop
\* starts only at a step that takes the flag from false to true; and the
\* edge memory always equals the flag, so a flag that stayed up is never
\* taken for a new edge.
PopIds(queue) == {p.id : p \in {q \in queue : q.category = "pop"}}

C21_EdgeStep ==
  /\ removeSelectedRequested =>
       /\ popCount' = popCount
       /\ PopIds(pending') \subseteq PopIds(pending)
       /\ removingRef' => removingRef
  /\ ~removeSelectedRequested' =>
       /\ popCount' = popCount
       /\ PopIds(pending') \subseteq PopIds(pending)
  /\ popCount' # popCount =>
       /\ ~removeSelectedRequested /\ removeSelectedRequested'
       /\ lastRemoveReqRef # TRUE

C21_EdgeMemoryInv == lastRemoveReqRef = removeSelectedRequested

C21_OnlyRisingEdgeStartsPop == [][C21_EdgeStep]_vars /\ []C21_EdgeMemoryInv

\* the flag is up after a pop completed and a second spin landed on an item
\* in range: everything a pop needs but an edge, and no second pop
C21_Witness ==
  /\ mounted
  /\ removeSelectedRequested
  /\ popCount = 1
  /\ Len(removeLog) = 1
  /\ Len(resultLog) = 2
  /\ selectedIndexRef \in 0..(Len(items) - 1)
  /\ ~spinning /\ ~isDisabled /\ ~removingRef
  /\ pending = {}

----------------------------------------------------------------------------
\* C22 as stated: a change of size while a spin or a pop is in flight does
\* not change the outcome.  An animation completes only through its pending
\* frame request, so the step of a size change must leave the frame requests
\* of the spin and of the pop in flight pending, and the flags as they were.
SizeChange == propChanges' # propChanges /\ items' = items /\ mounted'

C22_SizeChangeKeepsAnimations ==
  [][SizeChange =>
       /\ SpinCallbacks' = SpinCallbacks
       /\ PopCallbacks' = PopCallbacks
       /\ UNCHANGED <<spinning, removingRef, resultLog, removeLog>>]_vars

----------------------------------------------------------------------------
\* C23 as stated: a change of the item list starts a reflow only when the
\* count changed and both the old and the new count are greater than 1; in
\* every other case the layout is set to the new equal partition at once and
\* no reflow starts.
ItemsChange == propChanges' # propChanges /\ items' # items /\ mounted'

ReflowStarted ==
  \E cb \in ReflowCallbacks' :
    /\ cb.id = propChanges'
    /\ cb.prev = items
    /\ cb.next = items'
    /\ cb.elapsed = 0

LayoutSetAtOnce ==
  /\ activeRangesRef' = buildEqualRanges(items')
  /\ \A cb \in ReflowCallbacks' : cb.id # propChanges'

C23_ReflowOnlyAboveOne ==
  [][ItemsChange =>
       IF Len(items) # Len(items') /\ Len(items) > 1 /\ Len(items') > 1
       THEN ReflowStarted
       ELSE LayoutSetAtOnce]_vars

\* C23 amended: a change of the item list starts a reflow exactly when the
\* count changed, the old count is greater than 1 and the new count is at
\* least 1 (a change from several items to a single one is animated); in
\* every other case (same count, or old count <= 1) the layout is set to
\* the new equal partition at once and no reflow starts.
C23_ReflowWhenOldAboveOne ==
  [][ItemsChange =>
       IF Len(items) # Len(items') /\ Len(items) > 1 /\ Len(items') >= 1
       THEN ReflowStarted /\ activeRangesRef' = activeRangesRef
       ELSE LayoutSetAtOnce]_vars

\* a reflow towards a single item has just started: its request is pending,
\* no frame of it has run and the layout is still the old one
C23_Witness ==
  \E cb \in ReflowCallbacks :
    /\ cb.id = propChanges
    /\ Len(cb.prev) > 1
    /\ Len(cb.next) = 1
    /\ items = cb.next
    /\ ~cb.waits /\ cb.elapsed = 0
    /\ activeRangesRef = buildEqualRanges(cb.prev)

----------------------------------------------------------------------------
\* C24 as stated: in every frame of a reflow the blended ranges increase
\* monotonically in the index order of the new list: start <= end for each
\* item, and each item starts at or after the end of the item before it.
MonotoneIn(list, ranges) ==
  /\ \A i \in 1..Len(list) :
       ranges[list[i].value].start <= ranges[list[i].value].end
  /\ \A i \in 2..Len(list) :
       ranges[list[i].value].start >= ranges[list[i - 1].value].end

C24_BlendedRangesMonotone ==
  [][(activeRangesRef' # activeRangesRef /\ propChanges' = propChanges) =>
       \E cb \in ReflowCallbacks :
         /\ DOMAIN activeRangesRef' = KeysOf(cb.next)
         /\ MonotoneIn(cb.next, activeRangesRef')]_vars

----------------------------------------------------------------------------
\* C25: the current rotation is written only by the frame step of the
\* active spin.  A step that changes rotationRef runs the pending frame of
\* the one spin in flight, which is the spin started last, and is no change
\* of items or size, no confirmation edge and no refused trigger; at most
\* one spin has a frame pending at any time, so no two spins write it.
C25_RotationStep ==
  rotationRef' # rotationRef =>
    /\ \E cb \in SpinCallbacks :
         /\ SpinCallbacks = {cb}
         /\ ~cb.waits
         /\ cb.id = Len(resultLog) + 1
         /\ \A p \in pending' : p.category = "spin" => (p.id = cb.id /\ p.waits)
         /\ pending \ {cb} \subseteq pending'
    /\ spinning
    /\ refused' = ""
    /\ UNCHANGED <<items, propChanges, removeSelectedRequested,
                   lastRemoveReqRef, isDisabled, activeRangesRef, popCount,
                   removeLog>>

C25_OneSpinInv == Cardinality(SpinCallbacks) <= 1

C25_OnlyActiveSpinWritesRotation ==
  [][C25_RotationStep]_vars /\ []C25_OneSpinInv

\* a spin is part-way (its frames have moved the rotation off the start and
\* not yet to the target) and the confirmation edge that arrived after its
\* last frame was refused and left the rotation where the frame put it
C25_Witness ==
  \E cb \in SpinCallbacks :
    /\ cb.waits
    /\ rotationRef > cb.startRotation
    /\ rotationRef < cb.targetRotation
    /\ rotationRef = lastDraw.rotation
    /\ refused = "remove"
    /\ removeSelectedRequested

----------------------------------------------------------------------------
\* C26: within one spin the rotation does not decrease from frame to frame,
\* never exceeds the target rotation and is the target rotation on the
\* completing frame; a frame whose timestamp is before the start time draws
\* the start rotation.  Checked for the frames that run, and for the step's
\* rotation at sample timestamps from before the start to after the end.
SampleTimes(cb) ==
  {k * FrameMs : k \in (-1)..((cb.durationMs \div FrameMs) + 1)}
    \cup {-1, 1, cb.durationMs - 1, cb.durationMs, cb.durationMs + 1}

C26_RotationInv ==
  \A cb \in SpinCallbacks :
    /\ cb.startRotation <= rotationRef
    /\ rotationRef <= cb.targetRotation
    /\ \A e \in SampleTimes(cb) :
         /\ spinRotationAt(cb, e) >= cb.startRotation
         /\ spinRotationAt(cb, e) <= cb.targetRotation
         /\ e <= 0 => spinRotationAt(cb, e) = cb.startRotation
         /\ e >= cb.durationMs => spinRotationAt(cb, e) = cb.targetRotation
         /\ \A f \in SampleTimes(cb) :
              e <= f => spinRotationAt(cb, e) <= spinRotationAt(cb, f)

C26_RotationStep ==
  /\ rotationRef' >= rotationRef
  /\ \A cb \in SpinCallbacks :
       (cb \notin pending' /\ ~cb.waits /\ mounted' = mounted /\ propChanges' = propChanges) =>
         /\ rotationRef' = spinRotationAt(cb, cb.elapsed)
         /\ (\A p \in pending' : p.category = "spin" => p.id # cb.id) =>
              /\ rotationRef' = cb.targetRotation
              /\ cb.elapsed >= cb.durationMs

C26_RotationRisesToTarget == [][C26_RotationStep]_vars /\ []C26_RotationInv

\* the second spin, started from the rotation the first one ended on, has
\* drawn a frame strictly between its start and its target, and its next
\* frame is the completing one
C26_Witness ==
  \E cb \in SpinCallbacks :
    /\ cb.id = 2
    /\ cb.startRotation > 0
    /\ cb.waits
    /\ rotationRef = spinRotationAt(cb, cb.elapsed)
    /\ rotationRef > cb.startRotation
    /\ rotationRef < cb.targetRotation
    /\ cb.elapsed + FrameMs >= cb.durationMs

----------------------------------------------------------------------------
\* C27 as stated: with every requested frame delivered, time advancing and
\* no unmount, every animation that started completes and releases its
\* slot: a spin clears the spinning flag, a pop clears removingRef, and
\* after a reflow started no reflow frame stays pending.
C27_EveryAnimationCompletes ==
  /\ spinning ~> ~spinning
  /\ removingRef ~> ~removingRef
  /\ (ReflowCallbacks # {}) ~> (ReflowCallbacks = {})

----------------------------------------------------------------------------
\* C28 as stated: in the assembled application the removal request flag is
\* always reset: whenever the end of the modal's wipe-out has set the flag,
\* the wheel eventually calls onRemove and the flag returns to false, also
\* when the user triggers a spin between closing the modal and the end of
\* the wipe-out or of the pop.
C28_RequestFlagIsReset == removeSelectedRequested ~> ~removeSelectedRequested

----------------------------------------------------------------------------
\* C29 as stated: in every reachable state of the mounted wheel the recorded
\* selection index is absent or a valid index of the current item list.
C29_SelectionInRange ==
  mounted => (selectedIndexRef = NoIndex
                \/ selectedIndexRef \in 0..(Len(items) - 1))

----------------------------------------------------------------------------
\* C30 as stated: when onResult(v) is called, v is the value of an item of
\* the current item list and the recorded selection index is the position
\* of v in the current list.
C30_ResultStep ==
  (resultLog' # resultLog /\ mounted') =>
    LET v == resultLog'[Len(resultLog')].value
    IN  /\ v \in KeysOf(items')
        /\ selectedIndexRef' \in 0..(Len(items') - 1)
        /\ items'[selectedIndexRef' + 1].value = v

C30_ResultIsOfCurrentList == [][C30_ResultStep]_vars

----------------------------------------------------------------------------
\* C31 as stated: in the assembled application the item list handed to the
\* wheel stays valid after any sequence of spins, modal confirmations and
\* removals: it is never empty, its total weight stays above 0, and the
\* wheel's validation never fails (the wheel stays mounted).
C31_ItemsStayValid ==
  /\ Len(items) > 0
  /\ SumWeights(items) > 0
  /\ mounted

====
